---- MODULE Spec2Model ----
(***************************************************************************)
(* A model of fileinbox (package main, the revision with processInbox,     *)
(* organize, move, copyFile and cc).                                       *)
(*                                                                         *)
(* File names are sequences of one-character strings, so that              *)
(* parseFileName can be computed character by character.  A path is a      *)
(* sequence whose first component is the name of a root ("inbox1",         *)
(* "inbox2", "filed", "cc") and whose other components are names.  The     *)
(* file system is a function from the paths that exist to nodes.           *)
(*                                                                         *)
(* move and copyFile are modelled one system call at a time on a call      *)
(* frame (MoveStep); MoveSpec runs one call step by step, and the run      *)
(* level specification Spec uses the set of frames in which a call ends    *)
(* (CallRun).                                                              *)
(***************************************************************************)
EXTENDS Integers, Sequences, FiniteSets, TLC

VARIABLES
    mv,        \* MoveSpec: the frame of the running move/copyFile call
    mv0,       \* MoveSpec: the frame the call started from
    fs,        \* the file system of a run
    xdev,      \* TRUE when the inboxes are on another file system than filed/
    force,     \* the --force flag
    ccDests,   \* Config.CC.Dests (CC.Root is "cc"), as a set of destinations
    inboxes,   \* allInboxes of doFileInner
    fr,        \* the fileResult of the run
    pc,        \* position of the run
    idx,       \* index in allInboxes of the inbox being processed
    allParsed, \* processInbox: the parsed inbox entries, in listing order
    todo,      \* processInbox: destinations of acc.iter() not yet prepared
    acc,       \* processInbox: the accumulator
    i,         \* processInbox: index in allParsed of the next file to move
    err,       \* the error doFileInner returns
    faults,    \* how many more system calls the environment may make fail
    run,       \* history: what the run started from, which inboxes it began
    pass,      \* history: what the current pass over an inbox started from
    last,      \* history: what the last step over an inbox file did
    result,    \* doFile: whether the summary was produced, and what it returned
    pn         \* ParseSpec: the call of parseFileName and what it returned

vars == <<mv, mv0, fs, xdev, force, ccDests, inboxes, fr, pc, idx, allParsed,
          todo, acc, i, err, faults, run, pass, last, result, pn>>

runVars == <<fs, xdev, force, ccDests, inboxes, fr, pc, idx, allParsed,
             todo, acc, i, err, faults, run, pass, last, result>>

----------------------------------------------------------------------------
(* Bounds of the model. *)

\* the calendar year time.Now().Year() returns during the run
NowYear == 2016

\* how many system calls the environment may make fail in one run
MaxFaults == 2

\* the longest file content, in blocks io.Copy writes one at a time
MaxFileLen == 2

----------------------------------------------------------------------------
(* Characters and names. *)

Digits == <<"0", "1", "2", "3", "4", "5", "6", "7", "8", "9">>

IsDigit(c) == \E k \in 1..10 : Digits[k] = c

DigitVal(c) == (CHOOSE k \in 1..10 : Digits[k] = c) - 1

\* strconv.Atoi on a run of decimal digits
RECURSIVE Atoi(_)
Atoi(s) ==
    IF s = <<>> THEN 0
    ELSE 10 * Atoi(SubSeq(s, 1, Len(s) - 1)) + DigitVal(s[Len(s)])

\* The characters of the names of the model, in byte order (for the sorted
\* listing ioutil.ReadDir returns).
Alphabet == <<"\n", ".", "0", "1", "2", "3", "4", "5", "6", "7", "8", "9",
              "_", "b", "f", "x">>

CharOrd(c) == CHOOSE k \in 1..Len(Alphabet) : Alphabet[k] = c

RECURSIVE NameLess(_, _)
NameLess(a, b) ==
    IF a = <<>> THEN b # <<>>
    ELSE IF b = <<>> THEN FALSE
    ELSE IF a[1] = b[1] THEN NameLess(Tail(a), Tail(b))
    ELSE CharOrd(a[1]) < CharOrd(b[1])

\* the names of a set, sorted by file name as ioutil.ReadDir returns them
RECURSIVE SortNames(_)
SortNames(S) ==
    IF S = {} THEN <<>>
    ELSE LET n == CHOOSE x \in S : \A y \in S \ {x} : NameLess(x, y)
         IN <<n>> \o SortNames(S \ {n})

----------------------------------------------------------------------------
(* parseFileName *)

\* the longest prefix of s made of characters that are neither "_" nor "."
\* (what the greedy group [^_.]+ takes)
RECURSIVE DestRun(_)
DestRun(s) ==
    IF s = <<>> \/ s[1] \in {"_", "."} THEN <<>>
    ELSE <<s[1]>> \o DestRun(Tail(s))

HasNewline(s) == \E k \in 1..Len(s) : s[k] = "\n"

\* FileReMatches for a pattern whose destination group may be empty
FileReMatchesEmptyToken(baseName) ==
    /\ Len(baseName) >= 9
    /\ \A k \in 1..8 : IsDigit(baseName[k])
    /\ baseName[9] = "_"
    /\ LET d == DestRun(SubSeq(baseName, 10, Len(baseName)))
       IN ~HasNewline(SubSeq(baseName, 10 + Len(d), Len(baseName)))

\* fileRe.FindStringSubmatch(baseName) # nil, for
\* fileRe = ^(\d\d\d\d)(\d\d)(\d\d)_([^_.]+).*$ : eight digits, an underscore,
\* a non-empty run without "_" and ".", then anything "." matches (no
\* newline) up to the end of the text
FileReMatches(baseName) ==
    /\ Len(baseName) >= 10
    /\ \A k \in 1..8 : IsDigit(baseName[k])
    /\ baseName[9] = "_"
    /\ DestRun(SubSeq(baseName, 10, Len(baseName))) # <<>>
    /\ LET d == DestRun(SubSeq(baseName, 10, Len(baseName)))
       IN ~HasNewline(SubSeq(baseName, 10 + Len(d), Len(baseName)))

yearTest == [min |-> 1, max |-> 9999, unit |-> "year"]
monthTest == [min |-> 1, max |-> 12, unit |-> "month"]
dateTest == [min |-> 1, max |-> 31, unit |-> "date"]

\* verify rejecting the largest value of the unit
verifyBelowMax(ut, s) ==
    LET v == Atoi(s)
    IN IF v < ut.min \/ v >= ut.max
       THEN [i |-> 0, err |-> "range", unit |-> ut.unit]
       ELSE [i |-> v, err |-> "", unit |-> ut.unit]

\* verify without the test of the upper end of the range
verifyNoMax(ut, s) ==
    LET v == Atoi(s)
    IN IF v < ut.min
       THEN [i |-> 0, err |-> "range", unit |-> ut.unit]
       ELSE [i |-> v, err |-> "", unit |-> ut.unit]

\* unitTest.verify: the value and the error ("" for nil)
verify(ut, s) ==
    LET v == Atoi(s)
    IN IF v < ut.min \/ v > ut.max
       THEN [i |-> 0, err |-> "range", unit |-> ut.unit]
       ELSE [i |-> v, err |-> "", unit |-> ut.unit]

NoName == <<>>

ParseFailure(reason, unit) ==
    [err |-> reason, unit |-> unit, baseName |-> NoName, year |-> NoName,
     month |-> NoName, date |-> NoName, dest |-> NoName]

\* the most years past the current one that parseFileName accepts without force
FutureYears == 2

\* tooFarAhead rejecting the year FutureYears past the current one as well
tooFarAheadInclusive(f, yearDiff) == ~f /\ yearDiff >= FutureYears

\* parseFileName: if !force && yearDiff > 2
tooFarAhead(f, yearDiff) == ~f /\ yearDiff > FutureYears

\* parseFileName(force, baseName): err is "" and the fields are those of the
\* parsedName, or err is the kind of error and the parsedName is nil
parseFileName(f, baseName) ==
    IF ~FileReMatches(baseName) THEN ParseFailure("malformed", "")
    ELSE
      LET year  == SubSeq(baseName, 1, 4)
          month == SubSeq(baseName, 5, 6)
          date  == SubSeq(baseName, 7, 8)
          dest  == DestRun(SubSeq(baseName, 10, Len(baseName)))
          yv    == verify(yearTest, year)
          yearDiff == yv.i - NowYear
      IN IF yv.err # "" THEN ParseFailure("range", "year")
         ELSE IF tooFarAhead(f, yearDiff) THEN ParseFailure("future", "year")
         ELSE IF verify(monthTest, month).err # "" THEN ParseFailure("range", "month")
         ELSE IF verify(dateTest, date).err # "" THEN ParseFailure("range", "date")
         ELSE [err |-> "", unit |-> "", baseName |-> baseName, year |-> year,
               month |-> month, date |-> date, dest |-> dest]

----------------------------------------------------------------------------
(* The file system. *)

DirNode == [isDir |-> TRUE, data |-> <<>>]
FileNode(d) == [isDir |-> FALSE, data |-> d]

Exists(f, p) == p \in DOMAIN f
IsFile(f, p) == p \in DOMAIN f /\ ~f[p].isDir

\* isDir(name): os.Stat succeeds and the node is a directory
isDir(f, p) == p \in DOMAIN f /\ f[p].isDir

\* path.Dir
Parent(p) == SubSeq(p, 1, Len(p) - 1)

\* path.Join(dir, name)
Join(dir, name) == Append(dir, name)

Children(f, dir) == {p \in DOMAIN f : Len(p) = Len(dir) + 1 /\ Parent(p) = dir}

\* the file system with node n at p
Put(f, p, n) == [q \in DOMAIN f \cup {p} |-> IF q = p THEN n ELSE f[q]]

\* the file system without p
Del(f, p) == [q \in DOMAIN f \ {p} |-> f[q]]

\* the device a path is on: the inboxes are on device 1 when xd, all else on 0
Dev(p, xd) == IF xd /\ p[1] \in {"inbox1", "inbox2"} THEN 1 ELSE 0

\* errors: typ is the Go type of the error value, code what went wrong
NilErr == [typ |-> "nil", code |-> ""]
LinkError(code) == [typ |-> "*os.LinkError", code |-> code]
PathError(code) == [typ |-> "*os.PathError", code |-> code]

----------------------------------------------------------------------------
(* System calls.  Each gives the set of its possible outcomes              *)
(* [fs, err, faults]: what the file system forces, and, while the          *)
(* environment has faults left (nf > 0), a failure it injects.            *)

Outcome(f, e, nf) == [fs |-> f, err |-> e, faults |-> nf]

Injected(f, e, nf) == IF nf > 0 THEN {Outcome(f, e, nf - 1)} ELSE {}

\* os.Rename(old, new) of a regular file.  Every error os.Rename returns is
\* a *os.LinkError, whatever its cause.
Rename(f, old, new, xd, nf) ==
    IF ~Exists(f, old) THEN {Outcome(f, LinkError("ENOENT"), nf)}
    ELSE IF ~Exists(f, Parent(new)) THEN {Outcome(f, LinkError("ENOENT"), nf)}
    ELSE IF ~isDir(f, Parent(new)) THEN {Outcome(f, LinkError("ENOTDIR"), nf)}
    ELSE IF isDir(f, new) THEN {Outcome(f, LinkError("EEXIST"), nf)}
    ELSE IF Dev(old, xd) # Dev(new, xd) THEN {Outcome(f, LinkError("EXDEV"), nf)}
    ELSE {Outcome(Put(Del(f, old), new, f[old]), NilErr, nf)}
         \cup Injected(f, LinkError("EACCES"), nf)

\* os.Open(p)
Open(f, p, nf) ==
    IF ~Exists(f, p) THEN {Outcome(f, PathError("ENOENT"), nf)}
    ELSE {Outcome(f, NilErr, nf)} \cup Injected(f, PathError("EACCES"), nf)

\* os.OpenFile(p, O_WRONLY|O_CREATE|O_EXCL, 0666)
OpenFileExcl(f, p, nf) ==
    IF Exists(f, p) THEN {Outcome(f, PathError("EEXIST"), nf)}
    ELSE IF ~isDir(f, Parent(p)) THEN {Outcome(f, PathError("ENOENT"), nf)}
    ELSE {Outcome(Put(f, p, FileNode(<<>>)), NilErr, nf)}
         \cup Injected(f, PathError("EACCES"), nf)

\* one write of io.Copy: the next block of src is appended to dst
WriteBlock(f, src, dst, pos, nf) ==
    {Outcome(Put(f, dst, FileNode(Append(f[dst].data, f[src].data[pos + 1]))),
             NilErr, nf)}
    \cup Injected(f, PathError("EIO"), nf)

\* (*os.File).Close of a file opened for writing
CloseWritten(f, nf) ==
    {Outcome(f, NilErr, nf)} \cup Injected(f, PathError("EIO"), nf)

\* os.Remove(p)
Remove(f, p, nf) ==
    IF ~Exists(f, p) THEN {Outcome(f, PathError("ENOENT"), nf)}
    ELSE IF Children(f, p) # {} THEN {Outcome(f, PathError("ENOTEMPTY"), nf)}
    ELSE {Outcome(Del(f, p), NilErr, nf)} \cup Injected(f, PathError("EACCES"), nf)

\* os.Mkdir(p, 0700)
Mkdir(f, p, nf) ==
    IF Exists(f, p) THEN {Outcome(f, PathError("EEXIST"), nf)}
    ELSE IF ~isDir(f, Parent(p)) THEN {Outcome(f, PathError("ENOENT"), nf)}
    ELSE {Outcome(Put(f, p, DirNode), NilErr, nf)}
         \cup Injected(f, PathError("EACCES"), nf)

----------------------------------------------------------------------------
(* move and copyFile, one system call at a time.                           *)
(*                                                                         *)
(* A frame holds the arguments (from, to), the locals (fromOpen and toOpen *)
(* for from # nil and to # nil, err), the value the return statement       *)
(* placed in the unnamed result (ret), the file system and what the        *)
(* environment may still do.  renameErr is the value os.Rename returned,   *)
(* closeError the local of the deferred function, calls the set of system  *)
(* calls made.                                                             *)

Frame(fn, f, xd, from, to, nf) ==
    [fn |-> fn, pc |-> IF fn = "move" THEN "rename" ELSE "open",
     fs |-> f, xd |-> xd, from |-> from, to |-> to,
     fromOpen |-> FALSE, toOpen |-> FALSE, pos |-> 0,
     err |-> NilErr, renameErr |-> NilErr, closeError |-> NilErr,
     ret |-> NilErr, faults |-> nf, calls |-> {}]

\* _, ok := err.(*os.LinkError)
IsLinkError(e) == e.typ = "*os.LinkError"

\* a return statement: the result is the value err has now; the deferred
\* function runs next, when one was registered
ReturnErr(m, e, next) == [m EXCEPT !.err = e, !.ret = e, !.pc = next]

With(m, o, call) ==
    [m EXCEPT !.fs = o.fs, !.faults = o.faults, !.calls = @ \cup {call}]

\* move: err := os.Rename(fromName, toName), and the two early returns
MoveRename(m) ==
    {LET n == With(m, o, "rename")
     IN IF o.err = NilErr THEN ReturnErr(n, NilErr, "done")
        ELSE IF ~IsLinkError(o.err)
             THEN ReturnErr([n EXCEPT !.renameErr = o.err], o.err, "done")
        ELSE [n EXCEPT !.err = o.err, !.renameErr = o.err, !.pc = "open"]
     : o \in Rename(m.fs, m.from, m.to, m.xd, m.faults)}

\* move: from, err = os.Open(fromName)
MoveOpen(m) ==
    {LET n == With(m, o, "open")
     IN IF o.err # NilErr THEN ReturnErr(n, o.err, "closeFrom")
        ELSE [n EXCEPT !.err = NilErr, !.fromOpen = TRUE, !.pc = "create"]
     : o \in Open(m.fs, m.from, m.faults)}

\* move: to, err = os.OpenFile(toName, O_WRONLY|O_CREATE|O_EXCL, 0666)
MoveCreate(m) ==
    {LET n == With(m, o, "create")
     IN IF o.err # NilErr THEN ReturnErr(n, o.err, "closeFrom")
        ELSE [n EXCEPT !.err = NilErr, !.toOpen = TRUE, !.pc = "copy"]
     : o \in OpenFileExcl(m.fs, m.to, m.faults)}

\* MoveCopy returning nil whatever io.Copy returned
MoveCopyDropsError(m) ==
    IF m.pos = Len(m.fs[m.from].data) THEN {ReturnErr(m, NilErr, "closeFrom")}
    ELSE {LET n == With(m, o, "write")
          IN IF o.err # NilErr THEN ReturnErr(n, NilErr, "closeFrom")
             ELSE [n EXCEPT !.pos = @ + 1]
          : o \in WriteBlock(m.fs, m.from, m.to, m.pos, m.faults)}

\* move: _, err = io.Copy(to, from); return err
MoveCopy(m) ==
    IF m.pos = Len(m.fs[m.from].data) THEN {ReturnErr(m, NilErr, "closeFrom")}
    ELSE {LET n == With(m, o, "write")
          IN IF o.err # NilErr THEN ReturnErr(n, o.err, "closeFrom")
             ELSE [n EXCEPT !.pos = @ + 1]
          : o \in WriteBlock(m.fs, m.from, m.to, m.pos, m.faults)}

\* move, deferred: if from != nil { from.Close() }
MoveCloseFrom(m) == {[m EXCEPT !.fromOpen = FALSE, !.pc = "closeTo"]}

\* move, deferred: if to != nil { closeError := to.Close();
\*                               if err == nil { err = closeError } }
\* err is the local variable: the result was set by the return statement
MoveCloseTo(m) ==
    IF ~m.toOpen THEN {[m EXCEPT !.pc = "remove"]}
    ELSE {LET n == With(m, o, "close")
          IN [n EXCEPT !.toOpen = FALSE, !.pc = "remove", !.closeError = o.err,
                       !.err = IF m.err = NilErr THEN o.err ELSE m.err]
          : o \in CloseWritten(m.fs, m.faults)}

\* move, deferred: if err == nil { err = os.Remove(fromName) }
\*                 else { os.Remove(toName) }
MoveRemove(m) ==
    IF m.err = NilErr
    THEN {[With(m, o, "remove") EXCEPT !.err = o.err, !.pc = "done"]
          : o \in Remove(m.fs, m.from, m.faults)}
    ELSE {[With(m, o, "remove") EXCEPT !.pc = "done"]
          : o \in Remove(m.fs, m.to, m.faults)}

\* copyFile: from, err = os.Open(src)
CopyOpen(m) ==
    {LET n == With(m, o, "open")
     IN IF o.err # NilErr THEN ReturnErr(n, o.err, "closeFrom")
        ELSE [n EXCEPT !.err = NilErr, !.fromOpen = TRUE, !.pc = "create"]
     : o \in Open(m.fs, m.from, m.faults)}

\* copyFile: to, err = os.OpenFile(dest, O_WRONLY|O_CREATE|O_EXCL, 0666)
CopyCreate(m) ==
    {LET n == With(m, o, "create")
     IN IF o.err # NilErr THEN ReturnErr(n, o.err, "closeFrom")
        ELSE [n EXCEPT !.err = NilErr, !.toOpen = TRUE, !.pc = "copy"]
     : o \in OpenFileExcl(m.fs, m.to, m.faults)}

\* copyFile: _, err = io.Copy(to, from); return err
CopyCopy(m) ==
    IF m.pos = Len(m.fs[m.from].data) THEN {ReturnErr(m, NilErr, "closeFrom")}
    ELSE {LET n == With(m, o, "write")
          IN IF o.err # NilErr THEN ReturnErr(n, o.err, "closeFrom")
             ELSE [n EXCEPT !.pos = @ + 1]
          : o \in WriteBlock(m.fs, m.from, m.to, m.pos, m.faults)}

\* copyFile, deferred: if from != nil { from.Close() }
CopyCloseFrom(m) == {[m EXCEPT !.fromOpen = FALSE, !.pc = "closeTo"]}

\* copyFile, deferred: if to != nil { closeError := to.Close();
\*                                   if err == nil { err = closeError } }
\* and nothing else: copyFile removes nothing
CopyCloseTo(m) ==
    IF ~m.toOpen THEN {[m EXCEPT !.pc = "done"]}
    ELSE {LET n == With(m, o, "close")
          IN [n EXCEPT !.toOpen = FALSE, !.pc = "done", !.closeError = o.err,
                       !.err = IF m.err = NilErr THEN o.err ELSE m.err]
          : o \in CloseWritten(m.fs, m.faults)}

\* the frames one step of the call leads to
MoveStep(m) ==
    IF m.fn = "move"
    THEN CASE m.pc = "rename"    -> MoveRename(m)
           [] m.pc = "open"      -> MoveOpen(m)
           [] m.pc = "create"    -> MoveCreate(m)
           [] m.pc = "copy"      -> MoveCopy(m)
           [] m.pc = "closeFrom" -> MoveCloseFrom(m)
           [] m.pc = "closeTo"   -> MoveCloseTo(m)
           [] m.pc = "remove"    -> MoveRemove(m)
           [] OTHER              -> {}
    ELSE CASE m.pc = "open"      -> CopyOpen(m)
           [] m.pc = "create"    -> CopyCreate(m)
           [] m.pc = "copy"      -> CopyCopy(m)
           [] m.pc = "closeFrom" -> CopyCloseFrom(m)
           [] m.pc = "closeTo"   -> CopyCloseTo(m)
           [] OTHER              -> {}

\* the frames in which the call can end
RECURSIVE CallRun(_)
CallRun(m) ==
    IF m.pc = "done" THEN {m}
    ELSE UNION {CallRun(n) : n \in MoveStep(m)}

\* move(fromName, toName): the outcomes [fs, err, faults], err the result
move(f, xd, fromName, toName, nf) ==
    {Outcome(m.fs, m.ret, m.faults)
     : m \in CallRun(Frame("move", f, xd, fromName, toName, nf))}

\* copyFile(src, dest)
copyFile(f, xd, src, dest, nf) ==
    {Outcome(m.fs, m.ret, m.faults)
     : m \in CallRun(Frame("copyFile", f, xd, src, dest, nf))}

----------------------------------------------------------------------------
(* Config, accum, ensureHave and organize. *)

\* Config.inbox() is the first of inboxes; Config.dest(name)
dest(name) == <<"filed", name>>

NoPath == <<>>

\* Config.ccDest(dest): "" (NoPath) unless dest is one of CC.Dests
ccDest(dests, d) == IF d \in dests THEN <<"cc", d>> ELSE NoPath

\* newAccum()
newAccum == [d \in {} |-> {}]

\* add keeping only the first year seen for a destination
addFirstYearOnly(a, d, year) ==
    IF d \in DOMAIN a
    THEN a
    ELSE [x \in DOMAIN a \cup {d} |-> IF x = d THEN {year} ELSE a[x]]

\* add whose year set of a known destination is replaced, not extended
addReplacesYears(a, d, year) ==
    [x \in DOMAIN a \cup {d} |-> IF x = d THEN {year} ELSE a[x]]

\* accum.add(dest, year)
add(a, d, year) ==
    IF d \in DOMAIN a
    THEN [a EXCEPT ![d] = @ \cup {year}]
    ELSE [x \in DOMAIN a \cup {d} |-> IF x = d THEN {year} ELSE a[x]]

\* iter returning the destinations without their years
iterNoYears(a) == {[dest |-> d, years |-> {}] : d \in DOMAIN a}

\* accum.iter(): one destNeeds for each destination, in the order the map
\* is ranged over (any)
iter(a) == {[dest |-> d, years |-> a[d]] : d \in DOMAIN a}

\* ParseError giving nil: the parse failure of a loose file is dropped
ParseErrorDropped(parsed) == NilErr

\* organize, a loose file that does not parse: errors.Wrap(err, "organize")
ParseError(parsed) == [typ |-> "parse", code |-> parsed.err]

\* ioutil.ReadDir(dir): the names of the children, sorted, or an error
ReadDir(f, dir, nf) ==
    IF ~isDir(f, dir) THEN {[names |-> <<>>, err |-> PathError("ENOTDIR"), faults |-> nf]}
    ELSE {[names |-> SortNames({p[Len(p)] : p \in Children(f, dir)}),
           err |-> NilErr, faults |-> nf]}
         \cup (IF nf > 0
               THEN {[names |-> <<>>, err |-> PathError("EACCES"), faults |-> nf - 1]}
               ELSE {})

\* ensureHave calling os.Mkdir whether or not dirsHave holds the year
ensureHaveAlwaysMkdir(f, destDir, year, dirsHave, nf) ==
    {[fs |-> o.fs, err |-> o.err, faults |-> o.faults,
      dirsHave |-> IF o.err = NilErr THEN dirsHave \cup {year} ELSE dirsHave]
     : o \in Mkdir(f, Join(destDir, year), nf)}

\* ensureHave(destDir, year, &dirsHave): [fs, err, faults, dirsHave]
ensureHave(f, destDir, year, dirsHave, nf) ==
    IF year \in dirsHave
    THEN {[fs |-> f, err |-> NilErr, faults |-> nf, dirsHave |-> dirsHave]}
    ELSE {[fs |-> o.fs, err |-> o.err, faults |-> o.faults,
           dirsHave |-> IF o.err = NilErr THEN dirsHave \cup {year} ELSE dirsHave]
          : o \in Mkdir(f, Join(destDir, year), nf)}

\* organize: the loop over filesHave, from the state st =
\* [fs, cnt, err, faults, dirsHave]; it ends at the first error
RECURSIVE organizeFiles(_, _, _, _, _)
organizeFiles(frc, xd, st, destDir, filesHave) ==
    IF filesHave = <<>> THEN {st}
    ELSE
      LET f == Head(filesHave)
          parsed == parseFileName(frc, f)
      IN IF parsed.err # "" THEN {[st EXCEPT !.err = ParseError(parsed)]}
         ELSE UNION {
           IF e.err # NilErr
           THEN {[st EXCEPT !.fs = e.fs, !.faults = e.faults, !.err = e.err]}
           ELSE UNION {
             IF o.err # NilErr
             THEN {[st EXCEPT !.fs = o.fs, !.faults = o.faults, !.err = o.err,
                              !.dirsHave = e.dirsHave]}
             ELSE organizeFiles(frc, xd,
                    [st EXCEPT !.fs = o.fs, !.faults = o.faults,
                               !.dirsHave = e.dirsHave, !.cnt = @ + 1],
                    destDir, Tail(filesHave))
             : o \in move(e.fs, xd, Join(destDir, f),
                          Join(Join(destDir, parsed.year), f), e.faults)}
           : e \in ensureHave(st.fs, destDir, parsed.year, st.dirsHave, st.faults)}

\* organize: the loop over years (a slice built by ranging over a map, so
\* in any order); it ends at the first error
RECURSIVE organizeYears(_, _, _)
organizeYears(st, destDir, years) ==
    IF years = {} THEN {st}
    ELSE UNION {
           UNION {
             IF e.err # NilErr
             THEN {[st EXCEPT !.fs = e.fs, !.faults = e.faults, !.err = e.err]}
             ELSE organizeYears([st EXCEPT !.fs = e.fs, !.faults = e.faults,
                                           !.dirsHave = e.dirsHave],
                                destDir, years \ {y})
             : e \in ensureHave(st.fs, destDir, y, st.dirsHave, st.faults)}
           : y \in years}

\* organize(force, destDir, years): the outcomes [fs, cnt, err, faults]
organize(frc, f, xd, destDir, years, nf) ==
    UNION {
      IF r.err # NilErr
      THEN {[fs |-> f, cnt |-> 0, err |-> r.err, faults |-> r.faults]}
      ELSE
        LET dirsHave == {p[Len(p)] : p \in {q \in Children(f, destDir) : f[q].isDir}}
            filesHave == SelectSeq(r.names, LAMBDA n : ~f[Join(destDir, n)].isDir)
            start == [fs |-> f, cnt |-> 0, err |-> NilErr, faults |-> r.faults,
                      dirsHave |-> dirsHave]
        IN UNION {
             IF st.err # NilErr
             THEN {[fs |-> st.fs, cnt |-> st.cnt, err |-> st.err, faults |-> st.faults]}
             ELSE {[fs |-> y.fs, cnt |-> y.cnt, err |-> y.err, faults |-> y.faults]
                   : y \in organizeYears(st, destDir, years)}
             : st \in organizeFiles(frc, xd, start, destDir, filesHave)}
      : r \in ReadDir(f, destDir, nf)}


----------------------------------------------------------------------------
(* processInbox and doFileInner. *)

\* MkdirAll creating the last directory of the path only, as os.Mkdir does
MkdirAllOneLevel(f, p, nf) == Mkdir(f, p, nf)

\* os.MkdirAll(p, 0700): p and the ancestors it lacks become directories
MkdirAll(f, p, nf) ==
    LET anc == {SubSeq(p, 1, k) : k \in 1..Len(p)}
    IN IF \E q \in anc : IsFile(f, q) THEN {Outcome(f, PathError("ENOTDIR"), nf)}
       ELSE {Outcome([q \in DOMAIN f \cup anc |-> IF q \in DOMAIN f THEN f[q] ELSE DirNode],
                     NilErr, nf)}
            \cup Injected(f, PathError("EACCES"), nf)

\* skipUnparsable without fr.failureCount++
skipUnparsableUncounted(st) == st

\* processInbox, a name of the listing that does not parse:
\* fr.failureCount++; continue
skipUnparsable(st) == [st EXCEPT !.failed = @ + 1]

\* processInbox, the loop over the listing: [allParsed, acc, failed], failed
\* the number of names that did not parse
RECURSIVE parseAll(_, _, _)
parseAll(frc, names, st) ==
    IF names = <<>> THEN st
    ELSE LET parsed == parseFileName(frc, Head(names))
         IN IF parsed.err # ""
            THEN parseAll(frc, Tail(names), skipUnparsable(st))
            ELSE parseAll(frc, Tail(names),
                          [st EXCEPT !.allParsed = Append(@, parsed),
                                     !.acc = add(@, parsed.dest, parsed.year)])

\* recordMissing without fr.failureCount++
recordMissingUncounted(frv, d) == [frv EXCEPT !.missingDirs = @ \cup {d}]

\* processInbox, a destination directory that is missing without force:
\* fr.missingDirs[dest] = true; fr.failureCount++
recordMissing(frv, d) ==
    [frv EXCEPT !.missingDirs = @ \cup {d}, !.failureCount = @ + 1]

\* processInbox, one iteration of the loop over acc.iter(): the outcomes
\* [fs, fr, faults, err], err the error processInbox returns from it
prepareDest(frc, f, xd, frv, dn, nf) ==
    LET d == dest(dn.dest)
        organized(f1, nf1) ==
            {[fs |-> o.fs, fr |-> [frv EXCEPT !.orgCount = @ + o.cnt],
              faults |-> o.faults, err |-> o.err]
             : o \in organize(frc, f1, xd, d, dn.years, nf1)}
    IN IF isDir(f, d) THEN organized(f, nf)
       ELSE IF frc
       THEN UNION {IF o.err # NilErr
                   THEN {[fs |-> o.fs, fr |-> frv, faults |-> o.faults, err |-> o.err]}
                   ELSE organized(o.fs, o.faults)
                   : o \in MkdirAll(f, d, nf)}
       ELSE {[fs |-> f, fr |-> recordMissing(frv, d), faults |-> nf, err |-> NilErr]}

\* cc finding no carbon copy configured, whatever the destination
ccNever(dests, inbox, parsed) == [src |-> NoPath, dest |-> NoPath]

\* cc(config, inbox, parsed): (src, dest), both "" when the destination has
\* no carbon copy
cc(dests, inbox, parsed) ==
    IF ccDest(dests, parsed.dest) = NoPath THEN [src |-> NoPath, dest |-> NoPath]
    ELSE [src |-> Join(inbox, parsed.baseName),
          dest |-> Join(Join(ccDest(dests, parsed.dest), parsed.year), parsed.baseName)]

\* countMoveFailure without the test of fr.missingDirs
countMoveFailureAlways(frv, d) == [frv EXCEPT !.failureCount = @ + 1]

\* processInbox, after a failed move: if !fr.missingDirs[dest] { fr.failureCount++ }
countMoveFailure(frv, d) ==
    IF d \notin frv.missingDirs THEN [frv EXCEPT !.failureCount = @ + 1] ELSE frv

\* processInbox, the move of one parsed file: [fs, fr, faults, last]; f0 is
\* the file system before the carbon copy, when there was one
moveParsed(f0, f, xd, frv, inbox, parsed, nf) ==
    LET d == dest(parsed.dest)
        oldPath == Join(inbox, parsed.baseName)
        newPath == Join(Join(d, parsed.year), parsed.baseName)
    IN {IF o.err # NilErr
        THEN [fs |-> o.fs, fr |-> countMoveFailure(frv, d), faults |-> o.faults,
              last |-> [step |-> "move", err |-> o.err, parsed |-> parsed,
                       before |-> frv, fsBefore |-> f0]]
        ELSE [fs |-> o.fs, fr |-> [frv EXCEPT !.okCount = @ + 1], faults |-> o.faults,
              last |-> [step |-> "move", err |-> NilErr, parsed |-> parsed,
                       before |-> frv, fsBefore |-> f0]]
        : o \in move(f, xd, oldPath, newPath, nf)}

\* processInbox, one iteration of the loop over allParsed: the carbon copy
\* when one is configured, then the move
fileStep(f, xd, dests, frv, inbox, parsed, nf) ==
    LET c == cc(dests, inbox, parsed)
        failed(o, step) ==
            [fs |-> o.fs, fr |-> [frv EXCEPT !.failureCount = @ + 1],
             faults |-> o.faults,
             last |-> [step |-> step, err |-> o.err, parsed |-> parsed,
                       before |-> frv, fsBefore |-> f]]
        copied(f1, nf1) ==
            UNION {IF o.err # NilErr THEN {failed(o, "ccCopy")}
                   ELSE moveParsed(f, o.fs, xd, frv, inbox, parsed, o.faults)
                   : o \in copyFile(f1, xd, c.src, c.dest, nf1)}
    IN IF c.src = NoPath THEN moveParsed(f, f, xd, frv, inbox, parsed, nf)
       ELSE IF isDir(f, Parent(c.dest)) THEN copied(f, nf)
       ELSE UNION {IF o.err # NilErr THEN {failed(o, "ccMkdir")}
                   ELSE copied(o.fs, o.faults)
                   : o \in Mkdir(f, Parent(c.dest), nf)}

\* inboxFailed going on to the next inbox instead of returning
inboxFailedContinues(e, k) == [pc |-> "inbox", idx |-> k + 1, err |-> e]

\* doFileInner, after processInbox returned the error e for inbox k:
\* return fr, errors.Wrapf(err, ...)
inboxFailed(e, k) == [pc |-> "done", idx |-> k, err |-> e]

\* fileResult.summarize: the error it returns
summarize(frv) ==
    IF frv.failureCount # 0 THEN [typ |-> "errors", code |-> "failures"] ELSE NilErr

\* anyError returning its last argument only
anyErrorLast(e1, e2) == e2

\* anyError(err, summarizeErr)
anyError(e1, e2) == IF e1 # NilErr THEN e1 ELSE e2

\* doFile: what the run returns
doFile == anyError(err, summarize(fr))

NotADirectory == [typ |-> "errors", code |-> "not a directory"]

NoParsed == ParseFailure("", "")

\* the history of a pass that has not yet copied or moved a file
NoStep(frv) == [step |-> "", err |-> NilErr, parsed |-> NoParsed, before |-> frv,
                fsBefore |-> <<>>]

\* doFile has not returned yet
NotReturned == [summarized |-> FALSE, summarizeErr |-> NilErr, err |-> NilErr]

\* processInbox begins for inboxes[idx]: isDir, ReadDir, and the loop that
\* parses the names
BeginInbox ==
    /\ pc = "inbox"
    /\ idx <= Len(inboxes)
    /\ LET inbox == inboxes[idx]
           failed(e, nf) ==
               LET n == inboxFailed(e, idx)
               IN /\ pc' = n.pc /\ idx' = n.idx /\ err' = n.err
                  /\ faults' = nf
                  /\ run' = [run EXCEPT !.begun = @ \cup {idx}, !.aborted = idx]
                  /\ UNCHANGED <<fr, allParsed, acc, todo, pass>>
       IN IF ~isDir(fs, inbox) THEN failed(NotADirectory, faults)
          ELSE \E r \in ReadDir(fs, inbox, faults) :
                 IF r.err # NilErr THEN failed(r.err, r.faults)
                 ELSE LET st == parseAll(force, r.names,
                                 [allParsed |-> <<>>, acc |-> newAccum, failed |-> 0])
                      IN /\ allParsed' = st.allParsed
                         /\ acc' = st.acc
                         /\ todo' = iter(st.acc)
                         /\ fr' = [fr EXCEPT !.failureCount = @ + st.failed]
                         /\ pc' = "prepare"
                         /\ faults' = r.faults
                         /\ pass' = [inbox |-> inbox, fs0 |-> fs, fr0 |-> fr,
                                     faults0 |-> faults, names |-> r.names]
                         /\ run' = [run EXCEPT !.begun = @ \cup {idx}]
                         /\ UNCHANGED <<idx, err>>
    /\ i' = 0
    /\ last' = NoStep(fr)
    /\ UNCHANGED <<pn, result, mv, mv0, fs, xdev, force, ccDests, inboxes>>

\* processInbox prepares one destination of acc.iter()
PrepareDest ==
    /\ pc = "prepare"
    /\ \E dn \in todo :
         \E o \in prepareDest(force, fs, xdev, fr, dn, faults) :
           /\ fs' = o.fs
           /\ fr' = o.fr
           /\ faults' = o.faults
           /\ IF o.err # NilErr
              THEN LET n == inboxFailed(o.err, idx)
                   IN /\ pc' = n.pc /\ idx' = n.idx /\ err' = n.err
                      /\ run' = [run EXCEPT !.aborted = idx]
                      /\ todo' = todo
              ELSE /\ todo' = todo \ {dn}
                   /\ UNCHANGED <<pc, idx, err, run>>
    /\ UNCHANGED <<pn, result, mv, mv0, xdev, force, ccDests, inboxes, allParsed, acc, i,
                   pass, last>>

\* every destination is prepared: processInbox goes on to the moves
StartMoves ==
    /\ pc = "prepare"
    /\ todo = {}
    /\ pc' = "move"
    /\ i' = 1
    /\ UNCHANGED <<pn, result, mv, mv0, fs, xdev, force, ccDests, inboxes, fr, idx,
                   allParsed, todo, acc, err, faults, run, pass, last>>

\* processInbox copies and moves the next parsed file
MoveFile ==
    /\ pc = "move"
    /\ i <= Len(allParsed)
    /\ \E o \in fileStep(fs, xdev, ccDests, fr, inboxes[idx], allParsed[i], faults) :
         /\ fs' = o.fs
         /\ fr' = o.fr
         /\ faults' = o.faults
         /\ last' = o.last
    /\ i' = i + 1
    /\ UNCHANGED <<pn, result, mv, mv0, xdev, force, ccDests, inboxes, pc, idx, allParsed,
                   todo, acc, err, run, pass>>

\* processInbox returns nil: doFileInner goes on to the next inbox
EndInbox ==
    /\ pc = "move"
    /\ i > Len(allParsed)
    /\ pc' = "inbox"
    /\ idx' = idx + 1
    /\ UNCHANGED <<pn, result, mv, mv0, fs, xdev, force, ccDests, inboxes, fr, allParsed,
                   todo, acc, i, err, faults, run, pass, last>>

\* doFileInner returns fr, nil
Finish ==
    /\ pc = "inbox"
    /\ idx > Len(inboxes)
    /\ pc' = "done"
    /\ err' = NilErr
    /\ UNCHANGED <<pn, result, mv, mv0, fs, xdev, force, ccDests, inboxes, fr, idx,
                   allParsed, todo, acc, i, faults, run, pass, last>>

\* doFile, once doFileInner has returned (with an error or not):
\* summarizeErr := fr.summarize(duration); return anyError(err, summarizeErr)
DoFileReturn ==
    /\ pc = "done"
    /\ ~result.summarized
    /\ result' = [summarized |-> TRUE, summarizeErr |-> summarize(fr),
                  err |-> doFile]
    /\ UNCHANGED <<pn, mv, mv0, fs, xdev, force, ccDests, inboxes, fr, pc, idx,
                   allParsed, todo, acc, i, err, faults, run, pass, last>>

----------------------------------------------------------------------------
(* Names, years and destinations of the model. *)

Y2015 == <<"2", "0", "1", "5">>
Y2016 == <<"2", "0", "1", "6">>
DestF == <<"f">>
DestB == <<"b">>

N16F  == <<"2", "0", "1", "6", "0", "7", "0", "1", "_", "f">>
N15F  == <<"2", "0", "1", "5", "0", "7", "0", "2", "_", "f">>
N16B  == <<"2", "0", "1", "6", "0", "7", "0", "2", "_", "b">>
L15F  == <<"2", "0", "1", "5", "0", "7", "0", "1", "_", "f">>
NBad  == <<"x">>

\* a file content of k blocks
Content(k) == [j \in 1..k |-> j]

\* a content no copy of a file of the model produces
OtherContent == <<0>>

----------------------------------------------------------------------------
(* MoveSpec: one call of move or copyFile, one system call per step.       *)

MoveSrc == <<"inbox1", N16F>>
MoveDst == <<"filed", DestF, Y2016, N16F>>

\* the file systems a call starts from: the source is a file (or is
\* missing), the directory of the destination exists (or not), and a file
\* may already be at the destination
MoveStartFs ==
    LET base == [q \in {<<"inbox1">>, <<"filed">>, <<"filed", DestF>>} |-> DirNode]
        withDir == Put(base, Parent(MoveDst), DirNode)
        dirs == {base, withDir, Put(withDir, MoveDst, FileNode(OtherContent))}
    IN dirs \cup {Put(d, MoveSrc, FileNode(Content(k))) : d \in dirs, k \in 0..MaxFileLen}

RunIdle ==
    /\ fs = <<>>
    /\ xdev = FALSE
    /\ force = FALSE
    /\ ccDests = {}
    /\ inboxes = <<>>
    /\ fr = [okCount |-> 0, orgCount |-> 0, failureCount |-> 0, missingDirs |-> {}]
    /\ pc = "idle"
    /\ idx = 0
    /\ allParsed = <<>>
    /\ todo = {}
    /\ acc = <<>>
    /\ i = 0
    /\ err = NilErr
    /\ faults = 0
    /\ run = <<>>
    /\ pass = <<>>
    /\ last = <<>>
    /\ result = NotReturned

\* no call of parseFileName
ParseIdle == pn = [pc |-> "idle", force |-> FALSE, baseName |-> NoName,
                  out |-> NoParsed]

MoveInit ==
    /\ mv \in {Frame(fn, f, xd, MoveSrc, MoveDst, nf) :
                 fn \in {"move", "copyFile"}, f \in MoveStartFs,
                 xd \in BOOLEAN, nf \in 0..MaxFaults}
    /\ mv0 = mv
    /\ RunIdle
    /\ ParseIdle

\* the call makes its next system call (or returns)
MoveCall ==
    /\ mv.pc # "done"
    /\ mv' \in MoveStep(mv)
    /\ UNCHANGED <<mv0, pn, runVars>>

MoveNext == MoveCall

MoveSpec == MoveInit /\ [][MoveNext]_vars

----------------------------------------------------------------------------
(* ParseSpec: one call of parseFileName. *)

\* the four digits of a year
Itoa4(n) ==
    <<Digits[((n \div 1000) % 10) + 1], Digits[((n \div 100) % 10) + 1],
      Digits[((n \div 10) % 10) + 1], Digits[(n % 10) + 1]>>

\* years around the current one and at the ends of the range, and a year
\* that is not a number
ParseYears ==
    {Itoa4(y) : y \in {0, 1, NowYear - 1, NowYear, NowYear + FutureYears,
                       NowYear + FutureYears + 1, 9999}}
    \cup {<<"2", "0", "x", "6">>}

\* months and days at both ends of their range and just outside
ParseMonths == {<<"0", "0">>, <<"0", "1">>, <<"1", "2">>, <<"1", "3">>}
ParseDates == {<<"0", "0">>, <<"0", "1">>, <<"3", "1">>, <<"3", "2">>}

\* what follows the date: the separator, then a destination token (or none)
\* and a remainder with underscores, dots and line breaks
ParseSeparators == {<<"_">>, <<".">>, <<"x">>}
ParseTails ==
    {<<>>, <<"f">>, <<"f", "b">>, <<"f", "_", "x">>, <<"f", ".", "x">>,
     <<"_", "f">>, <<".", "f">>, <<"\n">>, <<"f", "\n">>, <<"f", ".", "\n">>,
     <<"f", "_", "\n", "x">>, <<"f", "\n", "b", ".", "x">>,
     <<"f", "b", "_", "b", ".", "x">>}

\* the names parseFileName is called with: dated names, and names too short
\* to hold a date
ParseNames ==
    {y \o m \o d \o sep \o t : y \in ParseYears, m \in ParseMonths,
       d \in ParseDates, sep \in ParseSeparators, t \in ParseTails}
    \cup {NoName, NBad, <<"2", "0", "1", "6", "0", "7", "0", "_", "f">>,
          <<"2", "0", "1", "6", "_", "f">>}

\* no call of move or copyFile
MoveIdle ==
    /\ mv = Frame("move", <<>>, FALSE, NoPath, NoPath, 0)
    /\ mv0 = mv

ParseInit ==
    /\ pn \in {[pc |-> "call", force |-> f, baseName |-> n, out |-> NoParsed]
               : f \in BOOLEAN, n \in ParseNames}
    /\ MoveIdle
    /\ RunIdle

\* parseFileName(force, baseName) returns
ParseCall ==
    /\ pn.pc = "call"
    /\ pn' = [pn EXCEPT !.pc = "done",
                        !.out = parseFileName(pn.force, pn.baseName)]
    /\ UNCHANGED <<mv, mv0, runVars>>

ParseNext == ParseCall

ParseSpec == ParseInit /\ [][ParseNext]_vars

----------------------------------------------------------------------------
(* Spec: a run of doFileInner over the configured inboxes. *)

In1 == <<"inbox1">>
In2 == <<"inbox2">>

EmptyFs == [q \in {} |-> DirNode]

Dirs(S) == [q \in S |-> DirNode]

\* files named names in dir, each holding the one block k
FilesAt(dir, names, k) == [q \in {Join(dir, n) : n \in names} |-> FileNode(<<k>>)]

\* the primary inbox: not a directory, or a directory with some files
Inbox1Trees ==
    {EmptyFs} \cup {Dirs({In1}) @@ FilesAt(In1, ns, 1)
                    : ns \in SUBSET {N16F, N15F, N16B, NBad}}

\* the extra inbox: not a directory, or a directory with one file
Inbox2Trees ==
    {EmptyFs} \cup {Dirs({In2}) @@ FilesAt(In2, ns, 2) : ns \in {{N16F}, {N16B}}}

\* filed/f: missing, or with loose files, or with a year directory that
\* already holds a file
DestFTrees ==
    LET d == dest(DestF)
        y == Join(d, Y2016)
    IN {EmptyFs}
       \cup {Dirs({d}) @@ FilesAt(d, ns, 3)
             : ns \in {{}, {L15F}, {N16F}, {L15F, N16F}, {NBad}, {L15F, NBad}}}
       \cup {Dirs({d, y}) @@ FilesAt(y, {N16F}, 4) @@ FilesAt(d, ns, 3)
             : ns \in {{}, {N16F}}}

\* filed/b: missing or empty
DestBTrees == {EmptyFs, Dirs({dest(DestB)})}

\* the carbon-copy settings: none, or copies of f under cc/f, which exists
\* or not
CcConfigs ==
    {[dests |-> {}, tree |-> EmptyFs],
     [dests |-> {DestF}, tree |-> Dirs({<<"cc">>})],
     [dests |-> {DestF}, tree |-> Dirs({<<"cc">>, <<"cc", DestF>>})]}

\* a carbon-copy tree that already holds the copy of a file of the inbox
CcTaken ==
    LET y == Join(<<"cc", DestF>>, Y2016)
    IN Dirs({<<"cc">>, <<"cc", DestF>>, y}) @@ FilesAt(y, {N16F}, 5)

\* the runs of the model: one inbox with every tree, or two inboxes, or one
\* inbox under a root that has no filed/ yet, or one inbox whose file was
\* carbon-copied before
StartConfigs ==
    {[inboxes |-> <<In1>>, fs |-> Dirs({<<"filed">>}) @@ a @@ f @@ b @@ c.tree,
      ccDests |-> c.dests]
     : a \in Inbox1Trees, f \in DestFTrees, b \in DestBTrees, c \in CcConfigs}
    \cup
    {[inboxes |-> <<In1, In2>>, fs |-> Dirs({<<"filed">>}) @@ a @@ a2 @@ f @@ b,
      ccDests |-> {}]
     : a \in {t \in Inbox1Trees : Cardinality(DOMAIN t) <= 2},
       a2 \in Inbox2Trees,
       f \in {t \in DestFTrees : Cardinality(DOMAIN t) <= 2},
       b \in {Dirs({dest(DestB)})}}
    \cup
    {[inboxes |-> <<In1>>, fs |-> a, ccDests |-> {}]
     : a \in Inbox1Trees \ {EmptyFs}}
    \cup
    {[inboxes |-> <<In1>>,
      fs |-> Dirs({<<"filed">>}) @@ Dirs({In1}) @@ FilesAt(In1, ns, 1) @@ f
             @@ Dirs({dest(DestB)}) @@ CcTaken,
      ccDests |-> {DestF}]
     : ns \in {{N16F}, {N15F, N16F}}, f \in {EmptyFs, Dirs({dest(DestF)})}}

Init ==
    /\ \E c \in StartConfigs :
         /\ inboxes = c.inboxes
         /\ fs = c.fs
         /\ ccDests = c.ccDests
         /\ run = [fs0 |-> c.fs, begun |-> {}, aborted |-> 0]
    /\ xdev \in BOOLEAN
    /\ force \in BOOLEAN
    /\ faults = MaxFaults
    /\ fr = [okCount |-> 0, orgCount |-> 0, failureCount |-> 0, missingDirs |-> {}]
    /\ pc = "inbox"
    /\ idx = 1
    /\ allParsed = <<>>
    /\ todo = {}
    /\ acc = newAccum
    /\ i = 0
    /\ err = NilErr
    /\ pass = [inbox |-> NoPath, fs0 |-> EmptyFs, fr0 |-> fr, faults0 |-> faults,
               names |-> <<>>]
    /\ last = NoStep(fr)
    /\ mv = Frame("move", EmptyFs, FALSE, NoPath, NoPath, 0)
    /\ mv0 = mv
    /\ result = NotReturned
    /\ ParseIdle

Next ==
    \/ BeginInbox
    \/ PrepareDest
    \/ StartMoves
    \/ MoveFile
    \/ EndInbox
    \/ Finish
    \/ DoFileReturn

Spec == Init /\ [][Next]_vars


----------------------------------------------------------------------------
(* Claims about move and copyFile, under MoveSpec. *)

\* the call started with a regular file at its source
SrcWasFile == IsFile(mv0.fs, mv0.from)

\* what the source held when the call started
SrcData == mv0.fs[mv0.from].data

\* the complete content of the source is at p
HoldsSrc(p) == IsFile(mv.fs, p) /\ mv.fs[p].data = SrcData

\* C1: when move has finished on the copy fallback path, either it returned
\* nil, the destination holds the complete bytes of the source and the
\* source is gone, or it returned an error, the source is intact and no file
\* this call created is at the destination.
C1_MoveAllOrNothing ==
    (mv.fn = "move" /\ mv.pc = "done" /\ "open" \in mv.calls /\ SrcWasFile) =>
        \/ /\ mv.ret = NilErr
           /\ HoldsSrc(mv.to)
           /\ ~Exists(mv.fs, mv.from)
        \/ /\ mv.ret # NilErr
           /\ HoldsSrc(mv.from)
           /\ (Exists(mv.fs, mv.to) => Exists(mv0.fs, mv.to))

\* C2: in every state of a move, finished or not, the source is gone only
\* when the destination holds its complete content and has been closed;
\* until then the source holds its content unchanged.
C2_SourceRemovedLast ==
    (mv.fn = "move" /\ SrcWasFile) =>
        /\ Exists(mv.fs, mv.from) => HoldsSrc(mv.from)
        /\ ~Exists(mv.fs, mv.from) => (HoldsSrc(mv.to) /\ ~mv.toOpen)

\* C2, its case: a move across file systems copied a file of two blocks or
\* more and removed the source.
C2_Witness ==
    /\ mv.fn = "move" /\ mv.pc = "done" /\ SrcWasFile
    /\ {"write", "close", "remove"} \subseteq mv.calls
    /\ mv.pos >= 2
    /\ ~Exists(mv.fs, mv.from)

\* C3: move goes on to the copy fallback only when the rename failed because
\* the two paths are on different file systems; after any other rename
\* failure it has returned that error and made no other system call.
C3_FallbackOnlyCrossDevice ==
    (mv.fn = "move" /\ mv.renameErr # NilErr /\ mv.renameErr.code # "EXDEV") =>
        /\ mv.pc = "done"
        /\ mv.ret = mv.renameErr
        /\ mv.calls = {"rename"}

\* C4: when the copy succeeded and closing the destination failed, move and
\* copyFile return a non-nil error.
C4_CloseErrorReturned ==
    (/\ mv.pc = "done" /\ SrcWasFile
     /\ mv.pos = Len(SrcData)
     /\ mv.closeError # NilErr) => mv.ret # NilErr

\* C5: when copyFile has returned, a file it created is at the destination
\* only if it returned nil and the file holds the whole content of the
\* source.
C5_CopyLeavesNoPartialFile ==
    (/\ mv.fn = "copyFile" /\ mv.pc = "done"
     /\ ~Exists(mv0.fs, mv.to) /\ Exists(mv.fs, mv.to)) =>
        (mv.ret = NilErr /\ HoldsSrc(mv.to))

----------------------------------------------------------------------------
(* Claims about processInbox, organize and doFileInner, under Spec. *)

\* processInbox has reached its end for the current inbox
PassDone == pc = "move" /\ i > Len(allParsed)

\* the environment made no system call of the current pass fail
PassFaultFree == faults = pass.faults0

\* the destinations of the current pass already prepared
Prepared == (DOMAIN acc) \ {dn.dest : dn \in todo}

\* the prepared destinations whose directory was missing when the pass began
MissingDests == {d \in Prepared : ~isDir(pass.fs0, dest(d))}

\* the names of the inbox that did not parse
Unparsable == Len(pass.names) - Len(allParsed)

\* the indices of the parsed inbox files destined to one of the destinations ds
DestinedTo(ds) == {k \in 1..Len(allParsed) : allParsed[k].dest \in ds}

InboxPath(k) == Join(pass.inbox, allParsed[k].baseName)

FiledPath(k) ==
    Join(Join(dest(allParsed[k].dest), allParsed[k].year), allParsed[k].baseName)

\* the parsed inbox files whose move cannot succeed although their
\* destination directory exists: across file systems, a file is already at
\* the target, or will be once organize has run
Collisions ==
    {k \in 1..Len(allParsed) :
        /\ xdev
        /\ isDir(pass.fs0, dest(allParsed[k].dest))
        /\ \/ Exists(pass.fs0, FiledPath(k))
           \/ Exists(pass.fs0, Join(dest(allParsed[k].dest), allParsed[k].baseName))}

LaterInboxPaths(f, k) ==
    {q \in DOMAIN f : \E j \in (k + 1)..Len(inboxes) : q[1] = inboxes[j][1]}

\* C8 (as claimed): when the processing of one inbox aborts with an error,
\* every other configured inbox is still processed in the same run.
C8_OtherInboxesStillProcessed ==
    (pc = "done" /\ run.aborted # 0) => run.begun = 1..Len(inboxes)

\* C8 (amended): when the processing of one inbox aborts with an error,
\* doFileInner returns that error at once: the inboxes listed before it have
\* been processed, and no inbox listed after it is processed in that run
\* (its files stay as they were).
C8_AbortEndsRun ==
    (run.aborted # 0) =>
        /\ pc = "done"
        /\ err # NilErr
        /\ idx = run.aborted
        /\ run.begun = 1..run.aborted
        /\ LaterInboxPaths(fs, idx) = LaterInboxPaths(run.fs0, idx)
        /\ \A q \in LaterInboxPaths(fs, idx) : fs[q] = run.fs0[q]

\* C8, its case: the first of two inboxes aborted, and the second, a
\* directory holding a file, was not processed.
C8_Witness ==
    /\ pc = "done" /\ run.aborted = 1 /\ Len(inboxes) = 2
    /\ Children(fs, In2) # {}

\* the loose files a destination directory held when the pass began
LooseAtStart(d) == {q \in Children(pass.fs0, dest(d)) : ~pass.fs0[q].isDir}

\* where organize moves the loose file q
YearPath(q) ==
    Join(Join(Parent(q), parseFileName(force, q[Len(q)]).year), q[Len(q)])

\* the loose files of the pass that are now in their year subdirectory and
\* no longer loose
Retrofitted ==
    {q \in UNION {LooseAtStart(d) : d \in DOMAIN acc} :
        /\ ~Exists(fs, q)
        /\ parseFileName(force, q[Len(q)]).err = ""
        /\ Exists(fs, YearPath(q))
        /\ fs[YearPath(q)] = pass.fs0[q]}

\* C9: when organize returns an error partway, the count it returns is the
\* number of loose files it had moved into year subdirectories, and
\* processInbox has added that count to orgCount when it aborts.
C9_PartialCountOnError ==
    (pc = "done" /\ run.aborted # 0 /\ todo # {}) =>
        fr.orgCount = pass.fr0.orgCount + Cardinality(Retrofitted)

\* C10: when organize has returned without error for every destination of
\* the pass, no loose file remains in a destination directory, every file
\* that was loose is in its year subdirectory, every accumulated year has a
\* subdirectory, and the counts returned add up to the number of files that
\* were loose.
C10_OrganizeComplete ==
    (pc = "move" /\ i = 1) =>
        \A d \in DOMAIN acc \ MissingDests :
            /\ \A q \in Children(fs, dest(d)) : fs[q].isDir
            /\ LooseAtStart(d) \subseteq Retrofitted
            /\ \A y \in acc[d] : isDir(fs, Join(dest(d), y))
            /\ fr.orgCount = pass.fr0.orgCount
                 + Cardinality(UNION {LooseAtStart(e) : e \in DOMAIN acc})

\* the destinations of the pass that organize has left organized: it returned
\* without error for them, and their directory holds no loose file
Organized ==
    {d \in Prepared : /\ isDir(fs, dest(d))
                      /\ \A q \in Children(fs, dest(d)) : fs[q].isDir}

\* C11: organize called again, with the same years, on a directory that a
\* first call left organized moves nothing, creates no directory, returns the
\* count 0 and leaves the tree unchanged; it returns no error, unless the
\* listing of the directory itself fails this time.
C11_OrganizeIdempotent ==
    \A d \in Organized :
        \A o \in organize(force, fs, xdev, dest(d), acc[d], faults) :
            /\ o.fs = fs
            /\ o.cnt = 0
            /\ (o.faults = faults) => (o.err = NilErr)

\* C11, its case: the first call moved a loose file of filed/f into the year
\* directory it created, and filed/f is now organized.
C11_Witness ==
    /\ pc = "move" /\ PassFaultFree
    /\ DestF \in Organized
    /\ LooseAtStart(DestF) # {}
    /\ fr.orgCount = pass.fr0.orgCount + Cardinality(LooseAtStart(DestF))

\* processInbox returned an error while it prepared the destinations
AbortedPreparing == pc = "done" /\ run.aborted # 0 /\ todo # {}

\* the variables of the pass describe the inbox being processed
InPass == pc \in {"prepare", "move"} \/ AbortedPreparing

\* the loose files of the directory of destination d that do not parse
BadLoose(d) ==
    {q \in LooseAtStart(d) : parseFileName(force, q[Len(q)]).err # ""}

\* the destinations of the pass whose existing directory holds such a file
BadDests == {d \in DOMAIN acc : BadLoose(d) # {}}

\* the paths below the carbon-copy root
CcPaths(f) == {q \in DOMAIN f : q[1] = "cc"}

\* C12: when a loose file in the existing directory of a destination of the
\* pass fails to parse, organize returns an error for that directory, so the
\* pass never reaches the move phase and ends with an error; no file of the
\* inbox is moved or carbon-copied in that pass.
C12_UnparsableLooseAborts ==
    (InPass /\ BadDests # {}) =>
        /\ pc # "move"
        /\ BadDests \subseteq {dn.dest : dn \in todo}
        /\ \A d \in BadDests :
             \A o \in organize(force, fs, xdev, dest(d), acc[d], faults) :
                 o.err # NilErr
        /\ (pc = "done") => (err # NilErr)
        /\ fr.okCount = pass.fr0.okCount
        /\ \A k \in 1..Len(pass.names) :
             LET q == Join(pass.inbox, pass.names[k])
             IN Exists(fs, q) /\ fs[q] = pass.fs0[q]
        /\ CcPaths(fs) = CcPaths(pass.fs0)

\* C12, its case: filed/f held a loose file that parses and one that does
\* not; organize moved the first and returned the parse error of the second,
\* and the pass over an inbox of two files or more ended with that error.
C12_Witness ==
    /\ AbortedPreparing
    /\ BadDests = {DestF}
    /\ err.typ = "parse"
    /\ fr.orgCount = pass.fr0.orgCount + 1
    /\ Len(allParsed) >= 2

\* the entries of the listing of the inbox whose name does not parse
BadNames ==
    {k \in 1..Len(pass.names) : parseFileName(force, pass.names[k]).err # ""}

\* the parsed entries of the pass that cannot be filed whatever the inbox
\* holds besides: their directory is missing and is not to be created
Unfilable == IF force THEN {} ELSE DestinedTo(MissingDests)

FiledPaths(f) == {q \in DOMAIN f : q[1] = "filed"}

C15_FailureIndication ==
    /\ (pc = "done" /\ ~result.summarized) => ENABLED DoFileReturn
    /\ result.summarized =>
        /\ pc = "done"
        /\ (result.summarizeErr # NilErr) <=> (fr.failureCount # 0)
        /\ (result.err # NilErr) <=> (err # NilErr \/ fr.failureCount > 0)

\* C15, its case: doFileInner returned nil after a pass that filed a file and
\* tolerated a failure, and the run returned an error.
C15_Witness ==
    /\ result.summarized
    /\ err = NilErr
    /\ fr.okCount >= 1
    /\ fr.failureCount >= 1
    /\ result.err # NilErr

\* the inbox of the pass holds no entry any more
InboxEmpty == Children(fs, pass.inbox) = {}

\* every parsed entry of the pass is at filed/<dest>/<year>/<baseName> with
\* the content it had in the inbox, and no longer in the inbox
AllFiled ==
    \A k \in 1..Len(allParsed) :
        /\ ~Exists(fs, InboxPath(k))
        /\ IsFile(fs, FiledPath(k))
        /\ fs[FiledPath(k)] = pass.fs0[InboxPath(k)]

\* the pass is one of scenario A: no force, no carbon copy, every name of the
\* inbox parses and every destination directory was present
ScenarioA ==
    /\ ~force /\ ccDests = {}
    /\ BadNames = {}
    /\ \A d \in DOMAIN acc : isDir(pass.fs0, dest(d))

\* C16 (as claimed): a pass of scenario A in which no system call fails
\* ends with every inbox file at filed/<dest>/<year>/<baseName>, the inbox
\* empty, okCount raised by the number of inbox files and failureCount
\* unchanged.
C16_ScenarioAllFiled ==
    (ScenarioA /\ PassFaultFree /\ (PassDone \/ AbortedPreparing)) =>
        /\ PassDone
        /\ AllFiled
        /\ InboxEmpty
        /\ fr.okCount = pass.fr0.okCount + Len(pass.names)
        /\ fr.failureCount = pass.fr0.failureCount

\* C16 (amended): the same, for the passes of scenario A in which no
\* destination directory holds a loose file that fails to parse and, when
\* the inbox is on another file system than filed/, no file is at the target
\* path of an inbox file or loose under its name in its destination
\* directory.
C16_ScenarioAllFiledFreeTargets ==
    (/\ ScenarioA /\ PassFaultFree /\ (PassDone \/ AbortedPreparing)
     /\ BadDests = {} /\ Collisions = {}) =>
        /\ PassDone
        /\ AllFiled
        /\ InboxEmpty
        /\ fr.okCount = pass.fr0.okCount + Len(pass.names)
        /\ fr.failureCount = pass.fr0.failureCount

\* C16, its case: the three files of the inbox, of two destinations and two
\* years, were filed across file systems.
C16_Witness ==
    /\ ScenarioA /\ PassFaultFree /\ PassDone /\ xdev
    /\ BadDests = {} /\ Collisions = {}
    /\ Len(pass.names) = 3
    /\ AllFiled /\ InboxEmpty
    /\ fr.okCount = 3 /\ fr.failureCount = 0

\* the file the last step was about is at filed/<dest>/<year>/<baseName>
\* with the content it had in the inbox, and no longer in the inbox
LastFiled ==
    LET src == Join(pass.inbox, last.parsed.baseName)
        new == Join(Join(dest(last.parsed.dest), last.parsed.year),
                    last.parsed.baseName)
    IN /\ ~Exists(fs, src)
       /\ IsFile(fs, new)
       /\ fs[new] = pass.fs0[src]

\* with force, the missing directory of every prepared destination exists
\* with its ancestors and a subdirectory for every accumulated year, and
\* missingDirs is as the pass found it
ForcedDirsReady ==
    /\ \A d \in MissingDests :
         /\ \A k \in 1..Len(dest(d)) : isDir(fs, SubSeq(dest(d), 1, k))
         /\ \A y \in acc[d] : isDir(fs, Join(dest(d), y))
    /\ fr.missingDirs = pass.fr0.missingDirs

Moved ==
    {k \in 1..Len(allParsed) :
        /\ ~Exists(fs, InboxPath(k))
        /\ IsFile(fs, FiledPath(k))
        /\ fs[FiledPath(k)] = pass.fs0[InboxPath(k)]}

\* C18: when the destinations of a pass are prepared, orgCount has risen by
\* the number of loose files retrofitted into year subdirectories; when the
\* pass ends, okCount has risen by the number of inbox files moved; and a
\* retrofitted loose file and a moved inbox file of the same destination and
\* year are in the same year subdirectory.
C18_CountsMatchFiles ==
    /\ (pc = "move" /\ i = 1) =>
         fr.orgCount = pass.fr0.orgCount + Cardinality(Retrofitted)
    /\ PassDone =>
         /\ fr.okCount = pass.fr0.okCount + Cardinality(Moved)
         /\ \A q \in Retrofitted : \A k \in Moved :
              (/\ Parent(q) = dest(allParsed[k].dest)
               /\ parseFileName(force, q[Len(q)]).year = allParsed[k].year) =>
                  /\ Parent(YearPath(q)) = Parent(FiledPath(k))
                  /\ isDir(fs, Parent(FiledPath(k)))

----------------------------------------------------------------------------
(* Claims about parseFileName, under ParseSpec. *)

\* the name follows the grammar in words: eight digits, an underscore, a
\* destination token of one character or more that is neither an underscore
\* nor a dot, then any text
InGrammar(n) ==
    /\ Len(n) >= 10
    /\ \A k \in 1..8 : n[k] \in {Digits[j] : j \in 1..10}
    /\ n[9] = "_"
    /\ n[10] \notin {"_", "."}

\* where the destination token of a name of the grammar ends: before the
\* next underscore or dot, or with the name
TokenEnd(n) ==
    CHOOSE e \in 10..Len(n) :
        /\ \A k \in 10..e : n[k] \notin {"_", "."}
        /\ e = Len(n) \/ n[e + 1] \in {"_", "."}

\* the text after the destination token holds no line break
TailOnOneLine(n) == \A k \in (TokenEnd(n) + 1)..Len(n) : n[k] # "\n"

YearOf(n) == Atoi(SubSeq(n, 1, 4))
MonthOf(n) == Atoi(SubSeq(n, 5, 6))
DayOf(n) == Atoi(SubSeq(n, 7, 8))

\* year, month and day of the name are in range
DateInRange(n) ==
    /\ YearOf(n) \in 1..9999
    /\ MonthOf(n) \in 1..12
    /\ DayOf(n) \in 1..31

\* the year of the name is rejected as future
RejectedAsFuture(f, n) == ~f /\ YearOf(n) - NowYear > FutureYears

\* parseFileName returned the parts of the name
Recovered ==
    LET n == pn.baseName
    IN /\ pn.out.err = ""
       /\ pn.out.year = SubSeq(n, 1, 4)
       /\ pn.out.month = SubSeq(n, 5, 6)
       /\ pn.out.date = SubSeq(n, 7, 8)
       /\ pn.out.dest = SubSeq(n, 10, TokenEnd(n))
       /\ pn.out.baseName = n

\* C19 (as claimed): for every name of the grammar whose year, month and
\* day are in range and whose year is not rejected as future, parseFileName
\* returns the year, month and day at characters 1-4, 5-6 and 7-8, the
\* destination token and the unchanged name.
C19_ParseRecovers ==
    (/\ pn.pc = "done" /\ InGrammar(pn.baseName)
     /\ DateInRange(pn.baseName)
     /\ ~RejectedAsFuture(pn.force, pn.baseName)) => Recovered

\* C19 (amended): the same, for the names whose text after the destination
\* token holds no line break.
C19_ParseRecoversOneLine ==
    (/\ pn.pc = "done" /\ InGrammar(pn.baseName)
     /\ TailOnOneLine(pn.baseName)
     /\ DateInRange(pn.baseName)
     /\ ~RejectedAsFuture(pn.force, pn.baseName)) => Recovered

\* C19, its case: a name with a destination of two characters followed by an
\* underscore, a tag and an extension, of the last month and day, parsed.
C19_Witness ==
    /\ pn.pc = "done" /\ pn.out.err = ""
    /\ pn.out.dest = <<"f", "b">>
    /\ Len(pn.baseName) > 11
    /\ pn.out.month = <<"1", "2">> /\ pn.out.date = <<"3", "1">>
    /\ pn.out.baseName = pn.baseName

\* C20: without force parseFileName fails, with the future-year error when
\* the year is in range, for every name of the grammar whose year is more
\* than 2 past the current year, and accepts the year exactly 2 past it;
\* with force the check is skipped and the same names, year, month and day
\* in range, parse.
C20_FutureYearCheck ==
    LET n == pn.baseName
        wellFormed == InGrammar(n) /\ TailOnOneLine(n)
    IN (pn.pc = "done" /\ InGrammar(n)) =>
        /\ (~pn.force /\ YearOf(n) - NowYear > 2) =>
             /\ pn.out.err # ""
             /\ wellFormed => (pn.out.err = "future")
        /\ (~pn.force /\ YearOf(n) - NowYear = 2 /\ wellFormed /\ DateInRange(n)) =>
             pn.out.err = ""
        /\ (pn.force /\ YearOf(n) - NowYear > 2 /\ wellFormed /\ DateInRange(n)) =>
             (pn.out.err = "" /\ pn.out.year = SubSeq(n, 1, 4))

\* C20, its case: a name of the year 3 past the current one, month and day
\* in range, was refused without force.
C20_Witness ==
    /\ pn.pc = "done" /\ ~pn.force
    /\ InGrammar(pn.baseName) /\ TailOnOneLine(pn.baseName)
    /\ DateInRange(pn.baseName)
    /\ YearOf(pn.baseName) = NowYear + 3
    /\ pn.out.err = "future"

\* C21 (as claimed): for every name of the grammar (on one line) and both
\* values of force, parseFileName fails with the range error whenever the
\* year, the month or the day is out of range, whatever the year is.
C21_RangeError ==
    LET n == pn.baseName
    IN (/\ pn.pc = "done" /\ InGrammar(n) /\ TailOnOneLine(n)
        /\ ~DateInRange(n)) =>
           /\ pn.out.err = "range"
           /\ pn.out.baseName = NoName

\* C21 (amended): the same, the range error naming the first of year, month
\* and day that is out of range, except that without force a name whose year
\* is in range and more than 2 past the current year fails with the
\* future-year error, whatever its month and day are.
C21_RangeErrorUnlessFuture ==
    LET n == pn.baseName
        FirstOutOfRange ==
            IF YearOf(n) \notin 1..9999 THEN "year"
            ELSE IF MonthOf(n) \notin 1..12 THEN "month"
            ELSE "date"
    IN (/\ pn.pc = "done" /\ InGrammar(n) /\ TailOnOneLine(n)
        /\ ~DateInRange(n)) =>
           /\ pn.out.baseName = NoName
           /\ IF YearOf(n) \in 1..9999 /\ RejectedAsFuture(pn.force, n)
              THEN pn.out.err = "future"
              ELSE pn.out.err = "range" /\ pn.out.unit = FirstOutOfRange

\* C21, its case: with force, a name of a year far past the current one and
\* of month 13 failed with the range error of the month.
C21_Witness ==
    /\ pn.pc = "done" /\ pn.force
    /\ InGrammar(pn.baseName) /\ TailOnOneLine(pn.baseName)
    /\ YearOf(pn.baseName) = 9999 /\ MonthOf(pn.baseName) = 13
    /\ pn.out.err = "range" /\ pn.out.unit = "month"

\* C22: for every name that violates the grammar (no underscore after the
\* date, fewer than 8 leading digits, a non-digit among the first 8
\* characters, an empty destination token), parseFileName fails with the
\* malformed-name error and returns no record, for both values of force.
C22_MalformedName ==
    (pn.pc = "done" /\ ~InGrammar(pn.baseName)) =>
        pn.out = ParseFailure("malformed", "")

\* C22, its case: a name with a date in range, an underscore and an empty
\* destination token was refused as malformed with force.
C22_Witness ==
    /\ pn.pc = "done" /\ pn.force
    /\ Len(pn.baseName) >= 10
    /\ \A k \in 1..8 : IsDigit(pn.baseName[k])
    /\ DateInRange(pn.baseName)
    /\ pn.baseName[9] = "_" /\ pn.baseName[10] = "."
    /\ pn.out.err = "malformed"

\* ---- the accumulator alone: any sequence of add calls, then iter ----

\* the largest number of add calls of one accumulator
MaxAdds == 4

\* names whose (destination, year) pairs repeat: N15F and L15F share theirs
AccNames == {N16F, N15F, N16B, L15F}

\* allParsed := []*parsedName{}; acc := newAccum()
AccInit ==
    /\ fs = <<>>
    /\ xdev = FALSE
    /\ force = FALSE
    /\ ccDests = {}
    /\ inboxes = <<>>
    /\ fr = [okCount |-> 0, orgCount |-> 0, failureCount |-> 0, missingDirs |-> {}]
    /\ pc = "acc"
    /\ idx = 0
    /\ allParsed = <<>>
    /\ todo = {}
    /\ acc = newAccum
    /\ i = 0
    /\ err = NilErr
    /\ faults = 0
    /\ run = <<>>
    /\ pass = <<>>
    /\ last = <<>>
    /\ result = NotReturned
    /\ MoveIdle
    /\ ParseIdle

\* allParsed = append(allParsed, parsed); acc.add(parsed.dest, parsed.year)
AccAdd ==
    /\ pc = "acc"
    /\ Len(allParsed) < MaxAdds
    /\ \E n \in AccNames :
          LET parsed == parseFileName(force, n)
          IN /\ parsed.err = ""
             /\ allParsed' = Append(allParsed, parsed)
             /\ acc' = add(acc, parsed.dest, parsed.year)
    /\ UNCHANGED <<fs, xdev, force, ccDests, inboxes, fr, pc, idx, todo, i,
                   err, faults, run, pass, last, result, pn, mv, mv0>>

\* acc.iter()
AccIter ==
    /\ pc = "acc"
    /\ pc' = "iterated"
    /\ todo' = iter(acc)
    /\ UNCHANGED <<fs, xdev, force, ccDests, inboxes, fr, idx, allParsed, acc,
                   i, err, faults, run, pass, last, result, pn, mv, mv0>>

AccNext == AccAdd \/ AccIter

AccSpec == AccInit /\ [][AccNext]_vars

\* C23: after any sequence of add(destination, year) calls, iter() returns
\* each added destination exactly once, and for each destination exactly the
\* years added for it, however often a pair was added.
C23_AccumulatorDeduplicates ==
    LET AddedDests == {allParsed[k].dest : k \in 1..Len(allParsed)}
        AddedYears(d) ==
            {allParsed[k].year :
                k \in {j \in 1..Len(allParsed) : allParsed[j].dest = d}}
    IN (pc = "iterated") =>
        /\ \A d \in AddedDests :
              /\ Cardinality({r \in todo : r.dest = d}) = 1
              /\ \A r \in todo : r.dest = d => r.years = AddedYears(d)
        /\ \A r \in todo : r.dest \in AddedDests

\* C23, its case: four adds with a repeated pair and two years of one
\* destination, and iter returned two entries.
C23_Witness ==
    /\ pc = "iterated"
    /\ Len(allParsed) = 4
    /\ \E j, k \in 1..4 : /\ j # k
                          /\ allParsed[j].dest = allParsed[k].dest
                          /\ allParsed[j].year = allParsed[k].year
    /\ \E r \in todo : Cardinality(r.years) = 2
    /\ Cardinality(todo) = 2

\* ---- preparation before the moves ----

\* C24: in every execution of processInbox the preparation of all
\* destinations is over before the first inbox file is copied or moved, so
\* that whenever a move targets dest/<year>/<baseName> for a destination not
\* recorded missing, the directory dest/<year> exists.
C24_PreparedBeforeMoves ==
    LET NotMissing ==
            {k \in 1..Len(allParsed) :
                dest(allParsed[k].dest) \notin fr.missingDirs}
        NothingFiledYet ==
            /\ fr.okCount = pass.fr0.okCount
            /\ \A k \in 1..Len(allParsed) :
                  /\ IsFile(fs, InboxPath(k))
                  /\ fs[InboxPath(k)] = pass.fs0[InboxPath(k)]
            /\ \A q \in DOMAIN fs :
                  q[1] = "cc" => q \in DOMAIN pass.fs0 /\ fs[q] = pass.fs0[q]
    IN
    /\ (pc = "prepare") => NothingFiledYet
    /\ (pc = "move") =>
          /\ todo = {}
          /\ \A k \in NotMissing : isDir(fs, Parent(FiledPath(k)))
          /\ (last.step = "move" /\ dest(last.parsed.dest) \notin fr.missingDirs) =>
                isDir(last.fsBefore,
                      Join(dest(last.parsed.dest), last.parsed.year))

\* C24, its case: a file was moved into a year directory that the
\* preparation of this pass created.
C24_Witness ==
    /\ pc = "move" /\ last.step = "move" /\ last.err = NilErr
    /\ ~isDir(pass.fs0, Join(dest(last.parsed.dest), last.parsed.year))
    /\ IsFile(fs, Join(Join(dest(last.parsed.dest), last.parsed.year),
                       last.parsed.baseName))

\* ---- a file already at the destination ----

\* C25: if a file already exists at dst when move or copyFile is called, the
\* call never replaces, truncates or deletes it, on the rename path as on
\* the fallback path: it returns an error, and the source and the file that
\* was at dst both keep their content.
C25_NoOverwrite ==
    IsFile(mv0.fs, mv0.to) =>
        /\ IsFile(mv.fs, mv.to) /\ mv.fs[mv.to] = mv0.fs[mv0.to]
        /\ (mv.pc = "done") =>
              /\ mv.ret # NilErr
              /\ SrcWasFile => HoldsSrc(mv.from)

\* ---- no file lost by a run ----

\* C26: no file is lost by a run: every file that was in an inbox or loose
\* in a destination directory still exists with its content, where it was
\* or at dest/<year>/<baseName>, and when the run is over okCount is the
\* number of inbox files that are now filed.
C26_NoFileLost ==
    LET parsedOf(q) == parseFileName(force, q[Len(q)])
        InboxFilesAtStart ==
            {q \in DOMAIN run.fs0 :
                /\ ~run.fs0[q].isDir
                /\ \E k \in 1..Len(inboxes) : Parent(q) = inboxes[k]}
        LooseFilesAtStart ==
            {q \in DOMAIN run.fs0 :
                ~run.fs0[q].isDir /\ Len(q) = 3 /\ q[1] = "filed"}
        InboxTarget(q) ==
            Join(Join(dest(parsedOf(q).dest), parsedOf(q).year), q[Len(q)])
        Survives(q, target) ==
            \/ IsFile(fs, q) /\ fs[q] = run.fs0[q]
            \/ /\ parsedOf(q).err = ""
               /\ IsFile(fs, target)
               /\ fs[target] = run.fs0[q]
        NowFiled ==
            {q \in InboxFilesAtStart :
                /\ parsedOf(q).err = ""
                /\ ~Exists(fs, q)
                /\ IsFile(fs, InboxTarget(q))
                /\ fs[InboxTarget(q)] = run.fs0[q]}
    IN
    /\ \A q \in InboxFilesAtStart : Survives(q, InboxTarget(q))
    /\ \A q \in LooseFilesAtStart : Survives(q, YearPath(q))
    /\ (pc = "done") => fr.okCount = Cardinality(NowFiled)

\* ---- carbon copies of files that were not filed ----

\* C27: after a pass, a carbon copy exists at ccDest/<year>/<baseName> only
\* for files that were also filed in that pass: a file whose move failed
\* (its destination missing without force, say) has no carbon copy left
\* behind.
C27_CopyOnlyOfFiled ==
    LET CopiedInPass ==
            {k \in 1..Len(allParsed) :
                LET c == cc(ccDests, pass.inbox, allParsed[k])
                IN /\ c.src # NoPath
                   /\ ~Exists(pass.fs0, c.dest)
                   /\ IsFile(fs, c.dest)}
    IN PassDone => CopiedInPass \subseteq Moved

====
